---- MODULE Spec2Model ----
(***************************************************************************)
(* WinStd: RAII wrappers over native Windows handles (Common.h, ETW.h,     *)
(* COM.h).  The model keeps a small population of wrapper objects, the     *)
(* native handles and heap buffers they own, and a count of every native   *)
(* release call, and translates each member function of winstd::handle,    *)
(* winstd::dplhandle, event_provider, event_trace, event_session and       *)
(* com_obj into one action.                                                *)
(***************************************************************************)
EXTENDS Integers, Sequences, FiniteSets, TLC

(***************************************************************************)
(* Bounds of the model.                                                    *)
(***************************************************************************)
\* Number of wrapper objects that exist over a run.
MaxWrappers == 2
\* Number of native handles / objects the operating system hands out.
MaxHandles == 3
\* Number of EVENT_TRACE_PROPERTIES heap copies allocated over a run.
MaxProps == 2

\* WINSTD_STACK_BUFFER_BYTES, which a build may set (#ifndef); the library's
\* default is 1024.  It is kept small here so that inputs overflow it.
WINSTD_STACK_BUFFER_BYTES == 4
\* Longest input string of a conversion, in characters.
MaxLen == 3
\* The longest formatted output of vsprintf.
MaxText == 5
\* The largest array, in elements, the heap can provide; a larger
\* std::make_unique throws std::bad_alloc.
MaxAlloc == 16
\* The number of event_trace_enabler objects.
MaxEnablers == 2
\* The number of variant objects and of BSTRs they can be built from.
MaxVariants == 2
MaxBstr == 2
\* The number of event_rec objects and of buffers they can allocate.
MaxRecords == 2
MaxBuffers == 4

(***************************************************************************)
(* Values.                                                                 *)
(***************************************************************************)
\* NULL: the invalid value of REGHANDLE, of event_session's TRACEHANDLE and
\* of a COM interface pointer.
NULL == 0
\* (TRACEHANDLE)INVALID_HANDLE_VALUE, the invalid value of event_trace.
INVALID_PROCESSTRACE_HANDLE == -1
\* Result codes of the native calls.
ERROR_SUCCESS == 0
ERROR_ACCESS_DENIED == 5
S_OK == 0
\* REGDB_E_CLASSNOTREG, 0x80040154 as a signed 32-bit HRESULT.
REGDB_E_CLASSNOTREG == -2147221164
\* Smallest 32-bit signed integer: the low dword 0x80000000 read as an
\* HRESULT.  A pointer whose low dword has bit 31 set is represented by its
\* signed 32-bit reading, INT32_MIN + i.
INT32_MIN == -2147483647 - 1

\* GetLastError() codes of the native conversion functions.
ERROR_INVALID_PARAMETER == 87
ERROR_INSUFFICIENT_BUFFER == 122
ERROR_NO_UNICODE_TRANSLATION == 1113
\* sizeof(CHAR), sizeof(WCHAR)
sizeof_CHAR == 1
sizeof_WCHAR == 2
\* Content of memory that was never written.
Junk == 9

Wrappers == 1..MaxWrappers
Kinds == {"event_provider", "event_trace", "event_session", "com_obj", "dplhandle"}
\* Handle values the native functions return: small positive numbers, and,
\* for COM objects, also addresses with bit 31 of the low dword set.
LowHandles == 1..MaxHandles
HighHandles == {INT32_MIN + i : i \in 1..MaxHandles}
NativeHandles == LowHandles \cup HighHandles
HandleValues == NativeHandles \cup {NULL, INVALID_PROCESSTRACE_HANDLE}
Props == 1..MaxProps

VARIABLES
    life,       \* life[w]: "unborn", "alive" or "dead" (destructor has run)
    kind,       \* kind[w]: the class of wrapper w
    m_h,        \* m_h[w]: handle<T, INVAL>::m_h
    m_prop,     \* m_prop[w]: event_session::m_prop (NULL or a buffer id)
    nextH,      \* number of native handles handed out so far
    nextP,      \* number of property buffers allocated so far
    released,   \* released[h]: number of native release calls made on h
    propFreed,  \* propFreed[p]: number of times buffer p was deleted
    detached,   \* handles returned to the caller by detach()
    dropped,    \* handles a native create returned that no wrapper took
    last,       \* the last operation: its inputs, pre-state and native calls
    cv,         \* the last string conversion: its inputs and its outcome
    al,          \* the last block released through sanitizing_allocator
    vp,          \* the running or last call of vsprintf
    en,          \* the event_trace_enabler objects and the EnableTraceEx calls made
    va,          \* the variant objects, word by word, and the strings freed
    er          \* the event_rec objects and the buffers allocated and deleted

vars == <<life, kind, m_h, m_prop, nextH, nextP, released, propFreed,
          detached, dropped, last, cv, al, vp, en, va, er>>

\* The variables of the string, allocator and record helpers, and all of
\* them but one.
libVars == <<cv, al, vp, en, va, er>>
allBut_cv == <<life, kind, m_h, m_prop, nextH, nextP, released, propFreed, detached, dropped, last, al, vp, en, va, er>>
allBut_al == <<life, kind, m_h, m_prop, nextH, nextP, released, propFreed, detached, dropped, last, cv, vp, en, va, er>>
allBut_vp == <<life, kind, m_h, m_prop, nextH, nextP, released, propFreed, detached, dropped, last, cv, al, en, va, er>>
allBut_en == <<life, kind, m_h, m_prop, nextH, nextP, released, propFreed, detached, dropped, last, cv, al, vp, va, er>>
allBut_va == <<life, kind, m_h, m_prop, nextH, nextP, released, propFreed, detached, dropped, last, cv, al, vp, en, er>>
allBut_er == <<life, kind, m_h, m_prop, nextH, nextP, released, propFreed, detached, dropped, last, cv, al, vp, en, va>>

\* handle<T, INVAL>::invalid of each class.
invalid(k) == IF k = "event_trace" THEN INVALID_PROCESSTRACE_HANDLE ELSE NULL

\* The native function each class's free_internal() forwards to.
ReleaseFn(k) ==
    CASE k = "event_provider" -> "EventUnregister"
      [] k = "event_trace"    -> "CloseTrace"
      [] k = "event_session"  -> "ControlTrace"
      [] k = "com_obj"        -> "Release"
      [] OTHER                -> "free_internal"

\* SUCCEEDED(x): ((HRESULT)(x)) >= 0, on the signed 32-bit reading of x.
SUCCEEDED(x) == x >= 0

(***************************************************************************)
(* The member functions, as functions on the object store                  *)
(*   S = [h, prop, rel, pfree, calls]                                      *)
(* h: m_h of every wrapper, prop: m_prop of every wrapper, rel / pfree:    *)
(* release and delete counts, nh / np: handles and buffers handed out,     *)
(* calls: the native calls of this operation, ret: its return value.       *)
(***************************************************************************)
Cur == [h |-> m_h, prop |-> m_prop, rel |-> released, pfree |-> propFreed,
        nh |-> nextH, np |-> nextP, calls |-> <<>>, ret |-> 0]

\* One native call in the log of an operation.
Call(fn, h, p) == [fn |-> fn, h |-> h, prop |-> p]

\* free_internal() of wrapper w: the native release on the current m_h.
\* event_session passes m_prop to ControlTrace.
free_internal(S, w) ==
    [S EXCEPT !.rel[S.h[w]] = @ + 1,
              !.calls = Append(@, Call(ReleaseFn(kind[w]), S.h[w], S.prop[w]))]

\* std::unique_ptr<EVENT_TRACE_PROPERTIES>::reset(p) on m_prop of w.
prop_reset(S, w, p) ==
    LET old == S.prop[w]
        S1 == IF old # NULL THEN [S EXCEPT !.pfree[old] = @ + 1] ELSE S
    IN  [S1 EXCEPT !.prop[w] = p]

\* attach() storing the new handle before it releases.
attach_store_first(S, w, h) ==
    LET S1 == [S EXCEPT !.h[w] = h]
    IN  IF S.h[w] # invalid(kind[w]) THEN free_internal(S1, w) ELSE S1

\* handle::attach(h)
attach(S, w, h) ==
    LET S1 == IF S.h[w] # invalid(kind[w]) THEN free_internal(S, w) ELSE S
    IN  [S1 EXCEPT !.h[w] = h]

\* detach() that hands the handle out and keeps it too.
detach_keep(S, w) == [S EXCEPT !.ret = S.h[w]]

\* handle::detach()
detach(S, w) == [S EXCEPT !.h[w] = invalid(kind[w]), !.ret = S.h[w]]

\* free() that forgets to reset m_h.
free_keep(S, w) ==
    IF S.h[w] # invalid(kind[w]) THEN free_internal(S, w) ELSE S

\* handle::free()
free(S, w) ==
    IF S.h[w] # invalid(kind[w])
    THEN [free_internal(S, w) EXCEPT !.h[w] = invalid(kind[w])]
    ELSE S

\* A move constructor that leaves the source untouched.
handle_move_ctor_keep(S, w, src) == [S EXCEPT !.h[w] = S.h[src]]

\* handle::handle(handle &&h): w is the new object, src the moved-from one.
handle_move_ctor(S, w, src) ==
    [S EXCEPT !.h[w] = S.h[src], !.h[src] = invalid(kind[src])]

\* Move assignment without the test for self-assignment.
handle_move_assign_noself(S, w, src) ==
    LET S1 == IF S.h[w] # invalid(kind[w]) THEN free_internal(S, w) ELSE S
        S2 == [S1 EXCEPT !.h[w] = S1.h[src]]
    IN  [S2 EXCEPT !.h[src] = invalid(kind[src])]

\* handle::operator=(handle &&h)
handle_move_assign(S, w, src) ==
    IF w # src
    THEN LET S1 == IF S.h[w] # invalid(kind[w]) THEN free_internal(S, w) ELSE S
         IN  [S1 EXCEPT !.h[w] = S.h[src], !.h[src] = invalid(kind[src])]
    ELSE S

\* A destructor that releases nothing.
destructor_leak(S, w) ==
    IF kind[w] = "event_session" THEN prop_reset(S, w, NULL) ELSE S

\* The destructors ~event_provider, ~event_trace, ~event_session, ~com_obj
\* (and of a dplhandle descendant): release when m_h is valid.  m_h keeps
\* its value; the object is gone.  ~event_session then destroys m_prop.
destructor(S, w) ==
    LET S1 == IF S.h[w] # invalid(kind[w]) THEN free_internal(S, w) ELSE S
    IN  IF kind[w] = "event_session" THEN prop_reset(S1, w, NULL) ELSE S1

\* event_session(event_session &&other): m_prop and the handle both move.
event_session_move_ctor(S, w, src) ==
    LET S1 == handle_move_ctor(S, w, src)
    IN  [S1 EXCEPT !.prop[w] = S.prop[src], !.prop[src] = NULL]

\* event_session::operator=(event_session &&other): the base move
\* assignment, then m_prop = std::move(other.m_prop).
event_session_move_assign(S, w, src) ==
    IF w # src
    THEN LET S1 == handle_move_assign(S, w, src)
             S2 == prop_reset(S1, w, S.prop[src])
         IN  [S2 EXCEPT !.prop[src] = NULL]
    ELSE S

\* event_session::attach(h, prop)
event_session_attach(S, w, h, p) == prop_reset(attach(S, w, h), w, p)

\* dplhandle::duplicate_internal(h): abstract; a descendant asks the system
\* for a duplicate, which is a new handle (S.nh + 1).  It throws instead of
\* returning an invalid handle; a throw ends the noexcept caller.
duplicate_internal(S, h) ==
    [S EXCEPT !.nh = @ + 1, !.calls = Append(@, Call("duplicate_internal", h, NULL))]

\* Copy assignment that releases first and duplicates afterwards.
dplhandle_copy_assign_free_first(S, w, src) ==
    IF w # src
    THEN LET S1 == IF S.h[w] # invalid(kind[w]) THEN free_internal(S, w) ELSE S
         IN  IF S.h[src] # invalid(kind[src])
             THEN [duplicate_internal(S1, S.h[src]) EXCEPT !.h[w] = S.nh + 1]
             ELSE [S1 EXCEPT !.h[w] = invalid(kind[w])]
    ELSE S

\* dplhandle::operator=(const dplhandle &h)
dplhandle_copy_assign(S, w, src) ==
    IF w # src
    THEN IF S.h[src] # invalid(kind[src])
         THEN LET h_new == S.nh + 1
                  S1 == duplicate_internal(S, S.h[src])
                  S2 == IF S1.h[w] # invalid(kind[w]) THEN free_internal(S1, w) ELSE S1
              IN  [S2 EXCEPT !.h[w] = h_new]
         ELSE LET S1 == IF S.h[w] # invalid(kind[w]) THEN free_internal(S, w) ELSE S
              IN  [S1 EXCEPT !.h[w] = invalid(kind[w])]
    ELSE S

\* create() that attaches whatever the result code is.
event_provider_create_unchecked(S, w, ulRes) ==
    LET h  == S.nh + 1
        S1 == [S EXCEPT !.calls = Append(@, Call("EventRegister", NULL, NULL)),
                        !.nh = IF ulRes = ERROR_SUCCESS THEN @ + 1 ELSE @]
    IN  [attach(S1, w, IF ulRes = ERROR_SUCCESS THEN h ELSE NULL) EXCEPT !.ret = ulRes]

\* event_provider::create(ProviderId).  ulRes is what EventRegister returns;
\* on ERROR_SUCCESS it stored a new handle in the local h.
event_provider_create(S, w, ulRes) ==
    LET h  == S.nh + 1
        S1 == [S EXCEPT !.calls = Append(@, Call("EventRegister", NULL, NULL)),
                        !.nh = IF ulRes = ERROR_SUCCESS THEN @ + 1 ELSE @]
        S2 == IF ulRes = ERROR_SUCCESS THEN attach(S1, w, h) ELSE S1
    IN  [S2 EXCEPT !.ret = ulRes]

\* event_session::create(SessionName, Properties).  A copy of Properties is
\* allocated (buffer S.np + 1) and passed to StartTrace; on ERROR_SUCCESS
\* the wrapper takes handle and copy, otherwise the local unique_ptr
\* deletes the copy on return.
event_session_create(S, w, ulRes) ==
    LET h    == S.nh + 1
        prop == S.np + 1
        S1 == [S EXCEPT !.np = @ + 1,
                        !.calls = Append(@, Call("StartTrace", NULL, prop)),
                        !.nh = IF ulRes = ERROR_SUCCESS THEN @ + 1 ELSE @]
        S2 == IF ulRes = ERROR_SUCCESS
              THEN event_session_attach(S1, w, h, prop)
              ELSE [S1 EXCEPT !.pfree[prop] = @ + 1]
    IN  [S2 EXCEPT !.ret = ulRes]

\* com_obj::create(rclsid, pUnkOuter, dwClsContext).  hr is what
\* CoCreateInstance returns and h what it stored in the local h: the new
\* object on success, NULL on failure.  The test is made on h, not on hr.
com_obj_create(S, w, hr, h) ==
    LET S1 == [S EXCEPT !.calls = Append(@, Call("CoCreateInstance", h, NULL)),
                        !.nh = IF h # NULL THEN @ + 1 ELSE @]
        S2 == IF SUCCEEDED(h) THEN attach(S1, w, h) ELSE S1
    IN  [S2 EXCEPT !.ret = hr]

(***************************************************************************)
(* String conversion helpers (Common.h).  Characters are small numbers:    *)
(* wide character 0 is the terminator, 1 converts to the single byte 1,    *)
(* 2 converts to the byte pair 2 3.  A byte 2 not followed by 3, or a      *)
(* byte 3 alone, is an invalid sequence.                                   *)
(***************************************************************************)
WideChars == {0, 1, 2}
Bytes == {0, 1, 2, 3}
Strings(A) == UNION {[1..n -> A] : n \in 0..MaxLen}
Take(s, n) == SubSeq(s, 1, n)

\* strnlen / wcsnlen: the index before the first zero among the first n
\* elements, n when there is none.
strnlen(s, n) ==
    LET zeros == {i \in 1..n : s[i] = 0}
    IN  IF zeros = {} THEN n ELSE (CHOOSE i \in zeros : \A j \in zeros : i <= j) - 1

\* What the native function reads: cch elements, or with cch = -1 the
\* elements up to and including the terminator.
Source(lp, cch) == IF cch = -1 THEN Take(lp, strnlen(lp, Len(lp)) + 1) ELSE Take(lp, cch)

\* The multi-byte form of a wide string.
RECURSIVE Encode(_)
Encode(w) ==
    IF w = <<>> THEN <<>>
    ELSE (IF Head(w) = 2 THEN <<2, 3>> ELSE <<Head(w)>>) \o Encode(Tail(w))

\* The wide form of the longest valid prefix of a multi-byte string, and
\* whether that prefix is the whole string.
RECURSIVE Decode(_)
Decode(b) ==
    IF b = <<>> THEN [out |-> <<>>, ok |-> TRUE]
    ELSE IF Head(b) \in {0, 1}
         THEN LET r == Decode(Tail(b)) IN [out |-> <<Head(b)>> \o r.out, ok |-> r.ok]
    ELSE IF Head(b) = 2 /\ Len(b) >= 2 /\ b[2] = 3
         THEN LET r == Decode(Tail(Tail(b))) IN [out |-> <<2>> \o r.out, ok |-> r.ok]
    ELSE [out |-> <<>>, ok |-> FALSE]

Converted(dir, src) ==
    IF dir = "W2M" THEN [out |-> Encode(src), ok |-> TRUE] ELSE Decode(src)

\* _countof(szStackBuffer)
StackCount(dir) ==
    WINSTD_STACK_BUFFER_BYTES \div (IF dir = "W2M" THEN sizeof_CHAR ELSE sizeof_WCHAR)

\* ::WideCharToMultiByte / ::MultiByteToWideChar on source src with an
\* output buffer buf of cap elements.  An empty source fails with
\* ERROR_INVALID_PARAMETER; cap = 0 asks for the required length; an invalid
\* sequence fails with ERROR_NO_UNICODE_TRANSLATION and an output that does
\* not fit with ERROR_INSUFFICIENT_BUFFER.  Which of the two is reported
\* when both apply depends on the implementation: validateFirst says the
\* source is validated before anything is written, otherwise the source is
\* converted in order and the first obstacle met is reported.
Native(dir, src, cap, buf, validateFirst) ==
    LET c == Converted(dir, src)
        n == Len(c.out)
        fill(k) == [i \in 1..cap |-> IF i <= k THEN c.out[i] ELSE buf[i]]
    IN  IF src = <<>>
        THEN [ret |-> 0, err |-> ERROR_INVALID_PARAMETER, buf |-> buf, cap |-> cap]
        ELSE IF ~c.ok /\ (validateFirst \/ cap = 0 \/ n <= cap)
        THEN [ret |-> 0, err |-> ERROR_NO_UNICODE_TRANSLATION,
              buf |-> IF cap = 0 THEN buf ELSE fill(IF validateFirst THEN 0 ELSE n), cap |-> cap]
        ELSE IF cap = 0
        THEN [ret |-> n, err |-> 0, buf |-> buf, cap |-> cap]
        ELSE IF n <= cap
        THEN [ret |-> n, err |-> 0, buf |-> fill(n), cap |-> cap]
        ELSE [ret |-> 0, err |-> ERROR_INSUFFICIENT_BUFFER, buf |-> fill(cap), cap |-> cap]

CallOf(r) == [cap |-> r.cap, ret |-> r.ret, err |-> r.err]

\* std::vector::resize(n)
resize(v, n) == [i \in 1..n |-> IF i <= Len(v) THEN v[i] ELSE 0]

\* A copy that keeps every converted element, a terminator included.
AssignLen_keep_all(shape, buf, cch, n) == n

\* The length of the copy into the output container.  shape "ptr_str": pointer input,
\* string output, which stops at the zero terminator; "ptr_vec": pointer
\* input, vector output; "str_str": string input, string output.  With
\* cch = -1 and n = 0 the length (size_t)n - 1 is SIZE_MAX and assign()
\* throws out of a noexcept function.
AssignLen(shape, buf, cch, n) ==
    IF shape = "ptr_str"
    THEN (IF cch # -1 THEN strnlen(buf, n) ELSE n - 1)
    ELSE n

\* The body shared by the six helpers: the stack buffer first, and on
\* ERROR_INSUFFICIENT_BUFFER the query, the allocation and the retry.
ConversionHelper(dir, shape, lp, cch, out0, validateFirst) ==
    LET src == Source(lp, cch)
        szStackBuffer == [i \in 1..StackCount(dir) |-> Junk]
        r1 == Native(dir, src, StackCount(dir), szStackBuffer, validateFirst)
    IN  IF r1.ret # 0
        THEN [ret |-> r1.ret,
              out |-> Take(r1.buf, AssignLen(shape, r1.buf, cch, r1.ret)),
              threw |-> FALSE, calls |-> <<CallOf(r1)>>, stack |-> r1.buf,
              heap |-> <<>>, allocated |-> 0]
        ELSE IF r1.err = ERROR_INSUFFICIENT_BUFFER
        THEN LET r2 == Native(dir, src, 0, <<>>, validateFirst)
                 szBuffer == IF shape = "ptr_vec" THEN resize(out0, r2.ret)
                             ELSE [i \in 1..r2.ret |-> Junk]
                 r3 == Native(dir, src, r2.ret, szBuffer, validateFirst)
                 len == AssignLen(shape, r3.buf, cch, r3.ret)
             IN  [ret |-> r3.ret,
                  out |-> IF shape = "ptr_vec" THEN r3.buf
                          ELSE IF len < 0 THEN out0 ELSE Take(r3.buf, len),
                  threw |-> len < 0,
                  calls |-> <<CallOf(r1), CallOf(r2), CallOf(r3)>>,
                  stack |-> r1.buf, heap |-> r3.buf, allocated |-> r2.ret]
        ELSE [ret |-> r1.ret, out |-> out0, threw |-> FALSE,
              calls |-> <<CallOf(r1)>>, stack |-> r1.buf, heap |-> <<>>,
              allocated |-> 0]

\* WideCharToMultiByte(..., LPCWSTR, int, std::string &, ...)
WideCharToMultiByte_string(lp, cch, out0, vf) ==
    ConversionHelper("W2M", "ptr_str", lp, cch, out0, vf)
\* WideCharToMultiByte(..., LPCWSTR, int, std::vector<char> &, ...)
WideCharToMultiByte_vector(lp, cch, out0, vf) ==
    ConversionHelper("W2M", "ptr_vec", lp, cch, out0, vf)
\* WideCharToMultiByte(..., std::wstring, std::string &, ...)
WideCharToMultiByte_wstring(str, out0, vf) ==
    ConversionHelper("W2M", "str_str", str, Len(str), out0, vf)
\* MultiByteToWideChar(..., LPCSTR, int, std::wstring &)
MultiByteToWideChar_wstring(lp, cch, out0, vf) ==
    ConversionHelper("M2W", "ptr_str", lp, cch, out0, vf)
\* MultiByteToWideChar(..., LPCSTR, int, std::vector<wchar_t> &)
MultiByteToWideChar_vector(lp, cch, out0, vf) ==
    ConversionHelper("M2W", "ptr_vec", lp, cch, out0, vf)
\* MultiByteToWideChar(..., const std::string &, std::wstring &)
MultiByteToWideChar_string(str, out0, vf) ==
    ConversionHelper("M2W", "str_str", str, Len(str), out0, vf)

NoConversion ==
    [fn |-> "none", dir |-> "none", shape |-> "none", lp |-> <<>>, cch |-> 0,
     out0 |-> <<>>, res |-> [ret |-> 0, out |-> <<>>, threw |-> FALSE, calls |-> <<>>,
                             stack |-> <<>>, heap |-> <<>>, allocated |-> 0]]

\* A pointer argument with its count: a counted buffer, or with -1 a
\* buffer whose only zero is its last element.
PointerArgs(A) ==
    {<<lp, Len(lp)>> : lp \in Strings(A)} \cup
    {<<lp \o <<0>>, -1>> : lp \in Strings(A \ {0})}
\* What the output container held before the call.
OldOutputs == {<<>>, <<1>>}

(***************************************************************************)
(* The Secure* conversion helpers (Common.h 410-502, 584-676): the same    *)
(* plan, followed by SecureZeroMemory of the internal buffers.             *)
(***************************************************************************)
\* SecureZeroMemory(buf, cb) on a buffer of elements of sz bytes: the
\* elements that lie wholly within the first cb bytes become zero.
SecureZeroMemory(buf, sz, cb) ==
    [i \in 1..Len(buf) |-> IF i * sz <= cb THEN 0 ELSE buf[i]]

\* The native conversion into the heap buffer returning 0 although the
\* length query before it succeeded: it wrote the first k converted
\* elements before it failed.
NativeFails(dir, src, cap, buf, k) ==
    LET c == Converted(dir, src)
    IN  [ret |-> 0, err |-> ERROR_NO_UNICODE_TRANSLATION,
         buf |-> [i \in 1..cap |-> IF i <= k /\ i <= Len(c.out) THEN c.out[i] ELSE buf[i]],
         cap |-> cap]

\* What the second conversion does: as the first one did (FALSE), or fail
\* after the given number of elements (TRUE).
RetryOutcomes == {<<FALSE, 0>>, <<TRUE, 0>>, <<TRUE, 1>>}

\* The body shared by the six Secure helpers.  stack and heap are the
\* internal buffers as they are left on return; the vector overloads convert
\* into the output vector and have no heap buffer of their own.
SecureConversionHelper(dir, shape, lp, cch, out0, validateFirst, retry) ==
    LET sz == IF dir = "W2M" THEN sizeof_CHAR ELSE sizeof_WCHAR
        src == Source(lp, cch)
        szStackBuffer == [i \in 1..StackCount(dir) |-> Junk]
        r1 == Native(dir, src, StackCount(dir), szStackBuffer, validateFirst)
        cleaned == SecureZeroMemory(r1.buf, sz, sz * StackCount(dir))
    IN  IF r1.ret # 0
        THEN [ret |-> r1.ret,
              out |-> Take(r1.buf, AssignLen(shape, r1.buf, cch, r1.ret)),
              threw |-> FALSE, calls |-> <<CallOf(r1)>>, stack |-> cleaned,
              heap |-> <<>>, allocated |-> 0]
        ELSE IF r1.err = ERROR_INSUFFICIENT_BUFFER
        THEN LET r2 == Native(dir, src, 0, <<>>, validateFirst)
                 szBuffer == IF shape = "ptr_vec" THEN resize(out0, r2.ret)
                             ELSE [i \in 1..r2.ret |-> Junk]
                 r3 == IF retry[1] /\ r2.ret # 0
                       THEN NativeFails(dir, src, r2.ret, szBuffer, retry[2])
                       ELSE Native(dir, src, r2.ret, szBuffer, validateFirst)
                 len == AssignLen(shape, r3.buf, cch, r3.ret)
             IN  [ret |-> r3.ret,
                  out |-> IF shape = "ptr_vec" THEN r3.buf
                          ELSE IF len < 0 THEN out0 ELSE Take(r3.buf, len),
                  threw |-> len < 0,
                  calls |-> <<CallOf(r1), CallOf(r2), CallOf(r3)>>,
                  stack |-> IF len < 0 THEN r1.buf ELSE cleaned,
                  heap |-> IF shape = "ptr_vec" THEN <<>>
                           ELSE IF len < 0 THEN r3.buf
                           ELSE SecureZeroMemory(r3.buf, sz, sz * r3.ret),
                  allocated |-> IF shape = "ptr_vec" THEN 0 ELSE r2.ret]
        ELSE [ret |-> r1.ret, out |-> out0, threw |-> FALSE,
              calls |-> <<CallOf(r1)>>, stack |-> cleaned, heap |-> <<>>,
              allocated |-> 0]

SecureWideCharToMultiByte_string(lp, cch, out0, vf, retry) ==
    SecureConversionHelper("W2M", "ptr_str", lp, cch, out0, vf, retry)
SecureWideCharToMultiByte_vector(lp, cch, out0, vf, retry) ==
    SecureConversionHelper("W2M", "ptr_vec", lp, cch, out0, vf, retry)
SecureWideCharToMultiByte_wstring(str, out0, vf, retry) ==
    SecureConversionHelper("W2M", "str_str", str, Len(str), out0, vf, retry)
SecureMultiByteToWideChar_wstring(lp, cch, out0, vf, retry) ==
    SecureConversionHelper("M2W", "ptr_str", lp, cch, out0, vf, retry)
SecureMultiByteToWideChar_vector(lp, cch, out0, vf, retry) ==
    SecureConversionHelper("M2W", "ptr_vec", lp, cch, out0, vf, retry)
SecureMultiByteToWideChar_string(str, out0, vf, retry) ==
    SecureConversionHelper("M2W", "str_str", str, Len(str), out0, vf, retry)

(***************************************************************************)
(* sanitizing_allocator (Common.h 1907-1960).  A block of n elements of    *)
(* sizeof(_Ty) bytes each is a sequence of n * sizeof(_Ty) bytes.          *)
(***************************************************************************)
SecretBytes == {1, 2, 3}
Blocks(sz) ==
    UNION {[1..(n * sz) -> SecretBytes] : n \in 1..MaxLen}

\* sanitizing_allocator<_Ty>::deallocate(_Ptr, _Size), sizeof(_Ty) = sz: the
\* bytes of the block as _Mybase::deallocate receives them.
sanitizing_allocator_deallocate(_Ptr, _Size, sz) ==
    SecureZeroMemory(_Ptr, 1, _Size)

NoDeallocation == [ty |-> "none", sz |-> 0, n |-> 0, block |-> <<>>, passed |-> <<>>]

(***************************************************************************)
(* vsprintf (Common.h 256-310).  The formatter is vsnprintf: for wchar_t   *)
(* the wrapper over _vsnwprintf (275), for char the wrapper over           *)
(* _vsnprintf when _MSC_VER <= 1600 (257-260) and the C runtime's          *)
(* vsnprintf otherwise.                                                    *)
(***************************************************************************)
TextChars == {1, 2}
Texts == UNION {[1..n -> TextChars] : n \in 0..MaxText}
\* vsnprintf as each build resolves it, with the element size.
Formatters ==
    {[elem |-> "char", fn |-> "_vsnprintf", sz |-> sizeof_CHAR],
     [elem |-> "char", fn |-> "vsnprintf", sz |-> sizeof_CHAR],
     [elem |-> "wchar_t", fn |-> "_vsnwprintf", sz |-> sizeof_WCHAR]}
\* What uninitialized memory may hold.
JunkValues == {0, Junk}

\* vsnprintf(str, count, format, arg) where formatting format with arg
\* gives text, or fails (an encoding error) when fails is TRUE.
\* _vsnprintf and _vsnwprintf store at most count characters, append a
\* terminator only when the output is shorter than count, and return -1
\* when it is longer.  The C runtime's vsnprintf stores at most count - 1
\* characters and a terminator, and returns the length of the whole output.
\* All of them return a negative value on failure.
vsnprintf(fn, str, count, text, fails) ==
    LET len == Len(text)
        put(k, z) == [i \in 1..Len(str) |->
                        IF i <= k THEN text[i] ELSE IF z /\ i = k + 1 THEN 0 ELSE str[i]]
    IN  IF fails THEN [ret |-> -1, buf |-> str]
        ELSE IF fn = "vsnprintf"
        THEN [ret |-> len,
              buf |-> IF count = 0 THEN str
                      ELSE put(IF len < count THEN len ELSE count - 1, TRUE)]
        ELSE IF len < count THEN [ret |-> len, buf |-> put(len, TRUE)]
        ELSE IF len = count THEN [ret |-> len, buf |-> put(len, FALSE)]
        ELSE [ret |-> -1, buf |-> put(count, FALSE)]

\* str.assign(buf, count): count elements read from buf; elements past the
\* end of buf are whatever lies behind it.
assign(buf, count, junk) ==
    [i \in 1..count |-> IF i <= Len(buf) THEN buf[i] ELSE junk]

NoVsprintf ==
    [pc |-> "idle", elem |-> "none", fn |-> "none", sz |-> 0, text |-> <<>>,
     fails |-> FALSE, capacity |-> 0, count |-> 0, str |-> <<>>, iterations |-> 0]

\* The stack attempt (lines 289-294, 299).
vsprintf_stack(f, text, fails, junk) ==
    LET cap == WINSTD_STACK_BUFFER_BYTES \div f.sz
        buf == [i \in 1..cap |-> junk]
        r == vsnprintf(f.fn, buf, cap - 1, text, fails)
    IN  [pc |-> IF r.ret >= 0 THEN "done" ELSE "retry",
         elem |-> f.elem, fn |-> f.fn, sz |-> f.sz, text |-> text, fails |-> fails,
         capacity |-> IF r.ret >= 0 THEN cap ELSE (2 * WINSTD_STACK_BUFFER_BYTES) \div f.sz,
         count |-> r.ret,
         str |-> IF r.ret >= 0 THEN assign(r.buf, r.ret, junk) ELSE <<>>,
         iterations |-> 0]

\* One iteration of the heap loop (lines 299-307).  std::make_unique
\* value-initializes the array; capacity doubles when the loop goes round.
vsprintf_retry(v) ==
    IF v.capacity > MaxAlloc
    THEN [v EXCEPT !.pc = "bad_alloc"]
    ELSE LET buf_dyn == [i \in 1..v.capacity |-> 0]
             r == vsnprintf(v.fn, buf_dyn, v.capacity - 1, v.text, v.fails)
         IN  IF r.ret >= 0
             THEN [v EXCEPT !.pc = "done", !.count = r.ret,
                            !.str = assign(r.buf, r.ret, 0),
                            !.iterations = @ + 1]
             ELSE [v EXCEPT !.count = r.ret, !.capacity = @ * 2,
                            !.iterations = @ + 1]

(***************************************************************************)
(* event_trace_enabler (ETW.h 936-1048).  E is the store: the objects and  *)
(* the EnableTraceEx calls made so far.                                    *)
(***************************************************************************)
EVENT_CONTROL_CODE_DISABLE_PROVIDER == 0
EVENT_CONTROL_CODE_ENABLE_PROVIDER == 1
Enablers == 1..MaxEnablers
\* Constructor arguments; the values differ from field to field.
EnablerArgs ==
    {[SourceId |-> 11, TraceHandle |-> 21, ProviderId |-> 31, Level |-> 4,
      MatchAnyKeyword |-> 51, MatchAllKeyword |-> 61, EnableProperty |-> 71,
      EnableFilterDesc |-> 81],
     [SourceId |-> NULL, TraceHandle |-> 22, ProviderId |-> 32, Level |-> 5,
      MatchAnyKeyword |-> 0, MatchAllKeyword |-> 0, EnableProperty |-> 0,
      EnableFilterDesc |-> NULL]}
\* An event_session: its handle and the address of its properties' Wnode.Guid.
Sessions == {[m_h |-> 23, guid |-> 13]}

NoEnabler ==
    [m_status |-> 0, m_provider_id |-> 0, m_source_id |-> 0, m_trace_handle |-> 0,
     m_level |-> 0, m_match_any_keyword |-> 0, m_match_all_keyword |-> 0,
     m_enable_property |-> 0, m_enable_filter_desc |-> 0]
NoEnablers ==
    [life |-> [e \in Enablers |-> "unborn"], obj |-> [e \in Enablers |-> NoEnabler],
     given |-> [e \in Enablers |-> NoEnabler], calls |-> <<>>,
     read |-> [e |-> 0, value |-> 0]]

\* EnableTraceEx called by object e with control code IsEnabled on e's
\* members; ret is what it returns.
EnableTraceEx(E, e, IsEnabled, ret) ==
    LET o == E.obj[e]
    IN  [E EXCEPT !.calls = Append(@,
            [by |-> e, ProviderId |-> o.m_provider_id, SourceId |-> o.m_source_id,
             TraceHandle |-> o.m_trace_handle, IsEnabled |-> IsEnabled,
             Level |-> o.m_level, MatchAnyKeyword |-> o.m_match_any_keyword,
             MatchAllKeyword |-> o.m_match_all_keyword,
             EnableProperty |-> o.m_enable_property,
             EnableFilterDesc |-> o.m_enable_filter_desc, ret |-> ret])]

\* event_trace_enabler(SourceId, TraceHandle, ProviderId, Level, ...)
event_trace_enabler_ctor(E, e, a, ulRes) ==
    LET o == [NoEnabler EXCEPT !.m_provider_id = a.ProviderId,
                               !.m_source_id = a.SourceId,
                               !.m_trace_handle = a.TraceHandle,
                               !.m_level = a.Level,
                               !.m_match_any_keyword = a.MatchAnyKeyword,
                               !.m_match_all_keyword = a.MatchAllKeyword,
                               !.m_enable_property = a.EnableProperty,
                               !.m_enable_filter_desc = a.EnableFilterDesc]
        E1 == [E EXCEPT !.obj[e] = o, !.life[e] = "alive"]
        E2 == EnableTraceEx(E1, e, EVENT_CONTROL_CODE_ENABLE_PROVIDER, ulRes)
    IN  [E2 EXCEPT !.obj[e].m_status = ulRes]

\* event_trace_enabler(session, ProviderId, Level, ...)
event_trace_enabler_ctor_session(E, e, session, a, ulRes) ==
    event_trace_enabler_ctor(E, e,
        [a EXCEPT !.SourceId = session.guid, !.TraceHandle = session.m_h], ulRes)

\* event_trace_enabler::status()
event_trace_enabler_status(E, e) == E.obj[e].m_status

\* A destructor that disables whatever the constructor's call returned.
event_trace_enabler_dtor_unchecked(E, e) ==
    [EnableTraceEx(E, e, EVENT_CONTROL_CODE_DISABLE_PROVIDER, ERROR_SUCCESS)
        EXCEPT !.life[e] = "dead"]

\* ~event_trace_enabler()
event_trace_enabler_dtor(E, e) ==
    [(IF E.obj[e].m_status = ERROR_SUCCESS
      THEN EnableTraceEx(E, e, EVENT_CONTROL_CODE_DISABLE_PROVIDER, ERROR_SUCCESS)
      ELSE E)
        EXCEPT !.life[e] = "dead"]

(***************************************************************************)
(* variant (COM.h 211-240, 432-458): class variant : public VARIANT with a *)
(* virtual destructor.  An object is four words: the pointer to the table  *)
(* of virtual functions, which the compiler puts in front of the VARIANT   *)
(* base, then the VARIANT itself: vt with the reserved words, and the two  *)
(* words of the value union.  `this` converted to VARIANT* points at the   *)
(* second word; `this` converted to void* points at the first.            *)
(***************************************************************************)
VT_EMPTY == 0
VT_I4 == 3
VT_BSTR == 8
\* The address of variant's table of virtual functions.
variant_vftable == 900
sizeof_VARIANT == 3
Variants == 1..MaxVariants
BstrPointers == {100 + i : i \in 1..MaxBstr}
LongValues == {1, 2}

NoVariants ==
    [life |-> [v \in Variants |-> "unborn"],
     mem |-> [v \in Variants |-> <<0, 0, 0, 0>>],
     freed |-> [p \in BstrPointers |-> 0],
     allocated |-> 0,
     last |-> [op |-> "init", v |-> 0, src |-> 0,
               mem |-> [v \in Variants |-> <<0, 0, 0, 0>>],
               freed |-> [p \in BstrPointers |-> 0]]]

\* The members of the VARIANT base of object v.
vt(M, v) == M.mem[v][2]
value(M, v) == M.mem[v][3]

\* The object as the compiler's part of a constructor leaves it: the
\* table pointer set, the members not initialized.
variant_raw(M, v, junk) ==
    [M EXCEPT !.mem[v] = <<variant_vftable, junk, junk, junk>>, !.life[v] = "alive"]

\* variant(): VariantInit(this)
variant_ctor(M, v, junk) ==
    [variant_raw(M, v, junk) EXCEPT !.mem[v][2] = VT_EMPTY]

\* variant(long nSrc)
variant_ctor_long(M, v, nSrc, junk) ==
    [variant_raw(M, v, junk) EXCEPT !.mem[v][2] = VT_I4, !.mem[v][3] = nSrc]

\* variant(BSTR bstr): the string SysAllocString returns is p.
variant_ctor_bstr(M, v, p, junk) ==
    [variant_raw(M, v, junk) EXCEPT !.mem[v][2] = VT_BSTR, !.mem[v][3] = p,
                                     !.allocated = @ + 1]

\* VariantClear(pvarg) on the VARIANT of object v: frees a string, sets
\* vt to VT_EMPTY, and leaves a VARIANT of no valid type as it is.
VariantClear(M, v) ==
    IF vt(M, v) = VT_BSTR /\ value(M, v) \in BstrPointers
    THEN [M EXCEPT !.freed[value(M, v)] = @ + 1, !.mem[v][2] = VT_EMPTY]
    ELSE IF vt(M, v) \in {VT_EMPTY, VT_I4}
    THEN [M EXCEPT !.mem[v][2] = VT_EMPTY]
    ELSE M

\* memcpy(this, &varSrc, sizeof(VARIANT)): sizeof(VARIANT) words from the
\* VARIANT of src to the start of object v.
memcpy_this(M, v, src) ==
    [M EXCEPT !.mem[v] = [i \in 1..4 |-> IF i <= sizeof_VARIANT
                                          THEN M.mem[src][i + 1] ELSE M.mem[v][i]]]

\* variant(VARIANT&& varSrc)
variant_move_ctor(M, v, src, junk) ==
    LET M1 == memcpy_this(variant_raw(M, v, junk), v, src)
    IN  [M1 EXCEPT !.mem[src][2] = VT_EMPTY]

\* variant& operator=(VARIANT&& varSrc)
variant_move_assign(M, v, src) ==
    IF v # src
    THEN LET M1 == memcpy_this(VariantClear(M, v), v, src)
         IN  [M1 EXCEPT !.mem[src][2] = VT_EMPTY]
    ELSE M

(***************************************************************************)
(* event_rec (ETW.h 296-486).  R is the store: for each record the fields  *)
(* of its EVENT_RECORD that matter here, and the buffers allocated and     *)
(* deleted so far.                                                         *)
(***************************************************************************)
Records == 1..MaxRecords
Buffers == 1..MaxBuffers
\* ExtendedDataCount, UserDataLength of the data given to a record.
DataSizes == {0, 1}
\* memset((EVENT_RECORD*)this, 0, sizeof(EVENT_RECORD))
BlankRecord ==
    [ExtendedDataCount |-> 0, ExtendedData |-> NULL, UserDataLength |-> 0,
     UserData |-> NULL]
NoRecords ==
    [life |-> [r \in Records |-> "unborn"], rec |-> [r \in Records |-> BlankRecord],
     allocated |-> 0, deleted |-> [b \in Buffers |-> 0]]

\* delete reinterpret_cast<unsigned char*>(p)
delete(R, p) == [R EXCEPT !.deleted[p] = @ + 1]

\* set_extended_data_internal(count, data)
set_extended_data_internal(R, r, count) ==
    IF count # 0
    THEN [R EXCEPT !.rec[r].ExtendedData = R.allocated + 1,
                   !.rec[r].ExtendedDataCount = count,
                   !.allocated = @ + 1]
    ELSE [R EXCEPT !.rec[r].ExtendedData = NULL, !.rec[r].ExtendedDataCount = count]

\* set_user_data_internal(size, data)
set_user_data_internal(R, r, size) ==
    IF size # 0
    THEN [R EXCEPT !.rec[r].UserData = R.allocated + 1,
                   !.rec[r].UserDataLength = size,
                   !.allocated = @ + 1]
    ELSE [R EXCEPT !.rec[r].UserData = NULL, !.rec[r].UserDataLength = size]

\* event_rec()
event_rec_ctor(R, r) ==
    [R EXCEPT !.rec[r] = BlankRecord, !.life[r] = "alive"]

\* event_rec(const event_rec &other), event_rec(const EVENT_RECORD &other)
event_rec_copy_ctor(R, r, other) ==
    LET R1 == [R EXCEPT !.rec[r] = R.rec[other], !.life[r] = "alive"]
        R2 == set_extended_data_internal(R1, r, R1.rec[other].ExtendedDataCount)
    IN  set_user_data_internal(R2, r, R2.rec[other].UserDataLength)

\* event_rec(event_rec&& other)
event_rec_move_ctor(R, r, other) ==
    [R EXCEPT !.rec[r] = R.rec[other], !.life[r] = "alive", !.rec[other] = BlankRecord]

\* ~event_rec()
event_rec_dtor(R, r) ==
    LET R1 == IF R.rec[r].ExtendedData # NULL THEN delete(R, R.rec[r].ExtendedData) ELSE R
        R2 == IF R1.rec[r].UserData # NULL THEN delete(R1, R1.rec[r].UserData) ELSE R1
    IN  [R2 EXCEPT !.life[r] = "dead"]

\* event_rec& operator=(const event_rec &other)
event_rec_copy_assign(R, r, other) ==
    IF r # other
    THEN LET R1 == [R EXCEPT !.rec[r] = R.rec[other]]
             R2 == set_extended_data_internal(R1, r, R1.rec[other].ExtendedDataCount)
         IN  set_user_data_internal(R2, r, R2.rec[other].UserDataLength)
    ELSE R

\* event_rec& operator=(event_rec&& other)
event_rec_move_assign(R, r, other) ==
    IF r # other
    THEN [R EXCEPT !.rec[r] = R.rec[other], !.rec[other] = BlankRecord]
    ELSE R

\* set_extended_data(count, data)
set_extended_data(R, r, count) ==
    set_extended_data_internal(
        IF R.rec[r].ExtendedData # NULL THEN delete(R, R.rec[r].ExtendedData) ELSE R,
        r, count)

\* set_user_data(size, data)
set_user_data(R, r, size) ==
    set_user_data_internal(
        IF R.rec[r].UserData # NULL THEN delete(R, R.rec[r].UserData) ELSE R,
        r, size)

(***************************************************************************)
(* The state machine: application code constructing, using and destroying  *)
(* wrappers.                                                               *)
(***************************************************************************)
Pre == [h |-> m_h, prop |-> m_prop, rel |-> released, pfree |-> propFreed,
        nh |-> nextH, np |-> nextP, life |-> life]

Init ==
    /\ life = [w \in Wrappers |-> "unborn"]
    /\ kind = [w \in Wrappers |-> "none"]
    /\ m_h = [w \in Wrappers |-> NULL]
    /\ m_prop = [w \in Wrappers |-> NULL]
    /\ nextH = 0
    /\ nextP = 0
    /\ released = [h \in HandleValues |-> 0]
    /\ propFreed = [p \in Props |-> 0]
    /\ detached = {}
    /\ dropped = {}
    /\ last = [op |-> "init", w |-> 0, src |-> 0, arg |-> 0, code |-> 0,
               ret |-> 0, calls |-> <<>>, pre |-> Pre]
    /\ cv = NoConversion
    /\ al = NoDeallocation
    /\ vp = NoVsprintf
    /\ en = NoEnablers
    /\ va = NoVariants
    /\ er = NoRecords

\* The store S becomes the state; the operation is recorded in last.
Commit(S, op, w, src, arg, code) ==
    /\ m_h' = S.h
    /\ m_prop' = S.prop
    /\ released' = S.rel
    /\ propFreed' = S.pfree
    /\ nextH' = S.nh
    /\ nextP' = S.np
    /\ last' = [op |-> op, w |-> w, src |-> src, arg |-> arg, code |-> code,
                ret |-> S.ret, calls |-> S.calls, pre |-> Pre]
    /\ UNCHANGED libVars

\* Objects come into being in slot order.
NextSlot(w) == life[w] = "unborn" /\ \A v \in Wrappers : v < w => life[v] # "unborn"
\* Wrappers of different classes share nothing and no operation takes two
\* of them, so a run is followed for one class at a time.
SameClass(k) == \A v \in Wrappers : life[v] # "unborn" => kind[v] = k
Alive(w) == life[w] = "alive"
CanAcquire == nextH < MaxHandles
CanAllocProp == nextP < MaxProps
\* A handle the caller has just acquired from the system.
FreshHandle == nextH + 1

\* C(): the default constructors; handle() sets m_h to invalid.
Construct(w, k) ==
    /\ NextSlot(w)
    /\ SameClass(k)
    /\ life' = [life EXCEPT ![w] = "alive"]
    /\ kind' = [kind EXCEPT ![w] = k]
    /\ Commit([Cur EXCEPT !.h[w] = invalid(k), !.prop[w] = NULL],
              "construct", w, 0, invalid(k), 0)
    /\ UNCHANGED <<detached, dropped>>

\* C(handle_type h): handle(h) stores a handle the caller acquired.
\* event_session(h, prop) also allocates and fills its copy of prop.
ConstructHandle(w, k) ==
    /\ NextSlot(w)
    /\ SameClass(k)
    /\ CanAcquire
    /\ k = "event_session" => CanAllocProp
    /\ life' = [life EXCEPT ![w] = "alive"]
    /\ kind' = [kind EXCEPT ![w] = k]
    /\ Commit([Cur EXCEPT !.h[w] = FreshHandle, !.nh = @ + 1,
                          !.prop[w] = IF k = "event_session" THEN nextP + 1 ELSE NULL,
                          !.np = IF k = "event_session" THEN @ + 1 ELSE @],
              "construct_handle", w, 0, FreshHandle, 0)
    /\ UNCHANGED <<detached, dropped>>

\* C(C &&h): move construction from a live object of the same class.
MoveConstruct(w, src) ==
    /\ NextSlot(w)
    /\ Alive(src)
    /\ kind[src] \in {"event_provider", "event_trace", "event_session", "dplhandle"}
    /\ life' = [life EXCEPT ![w] = "alive"]
    /\ kind' = [kind EXCEPT ![w] = kind[src]]
    /\ Commit(IF kind[src] = "event_session"
              THEN event_session_move_ctor(Cur, w, src)
              ELSE handle_move_ctor(Cur, w, src),
              "move_construct", w, src, 0, 0)
    /\ UNCHANGED <<detached, dropped>>

\* attach(h) with a freshly acquired handle, or with the invalid value.
Attach(w, fresh) ==
    /\ Alive(w)
    /\ kind[w] \in {"event_provider", "event_trace", "com_obj", "dplhandle"}
    /\ fresh => CanAcquire
    /\ LET h == IF fresh THEN FreshHandle ELSE invalid(kind[w])
           S == IF fresh THEN [Cur EXCEPT !.nh = @ + 1] ELSE Cur
       IN  Commit(attach(S, w, h), "attach", w, 0, h, 0)
    /\ UNCHANGED <<life, kind, detached, dropped>>

\* operator=(handle_type h), which forwards to attach(h).
AssignHandle(w, fresh) ==
    /\ Alive(w)
    /\ kind[w] \in {"event_provider", "event_trace", "dplhandle"}
    /\ fresh => CanAcquire
    /\ LET h == IF fresh THEN FreshHandle ELSE invalid(kind[w])
           S == IF fresh THEN [Cur EXCEPT !.nh = @ + 1] ELSE Cur
       IN  Commit(attach(S, w, h), "assign_handle", w, 0, h, 0)
    /\ UNCHANGED <<life, kind, detached, dropped>>

\* event_session::attach(h, prop): a fresh session handle and a properties
\* buffer the caller allocated; the wrapper takes both.
SessionAttach(w) ==
    /\ Alive(w)
    /\ kind[w] = "event_session"
    /\ CanAcquire
    /\ CanAllocProp
    /\ Commit(event_session_attach([Cur EXCEPT !.nh = @ + 1, !.np = @ + 1],
                                   w, FreshHandle, nextP + 1),
              "attach", w, 0, FreshHandle, 0)
    /\ UNCHANGED <<life, kind, detached, dropped>>

\* operator=(C &&h), self-assignment included.
MoveAssign(w, src) ==
    /\ Alive(w)
    /\ Alive(src)
    /\ kind[w] = kind[src]
    /\ kind[w] \in {"event_provider", "event_trace", "event_session", "dplhandle"}
    /\ Commit(IF kind[w] = "event_session"
              THEN event_session_move_assign(Cur, w, src)
              ELSE handle_move_assign(Cur, w, src),
              "move_assign", w, src, 0, 0)
    /\ UNCHANGED <<life, kind, detached, dropped>>

\* dplhandle::operator=(const dplhandle &h), self-assignment included.
CopyAssign(w, src) ==
    /\ Alive(w)
    /\ Alive(src)
    /\ kind[w] = "dplhandle"
    /\ kind[src] = "dplhandle"
    /\ (w # src /\ m_h[src] # invalid(kind[src])) => CanAcquire
    /\ Commit(dplhandle_copy_assign(Cur, w, src), "copy_assign", w, src, 0, 0)
    /\ UNCHANGED <<life, kind, detached, dropped>>

\* detach(): the caller now owns the returned handle.
Detach(w) ==
    /\ Alive(w)
    /\ Commit(detach(Cur, w), "detach", w, 0, 0, 0)
    /\ detached' = IF m_h[w] # invalid(kind[w]) THEN detached \cup {m_h[w]} ELSE detached
    /\ UNCHANGED <<life, kind, dropped>>

\* free()
Free(w) ==
    /\ Alive(w)
    /\ Commit(free(Cur, w), "free", w, 0, 0, 0)
    /\ UNCHANGED <<life, kind, detached, dropped>>

\* The object goes out of scope.
Destroy(w) ==
    /\ Alive(w)
    /\ life' = [life EXCEPT ![w] = "dead"]
    /\ Commit(destructor(Cur, w), "destroy", w, 0, 0, 0)
    /\ UNCHANGED <<kind, detached, dropped>>

\* event_provider::create
ProviderCreate(w, ulRes) ==
    /\ Alive(w)
    /\ kind[w] = "event_provider"
    /\ ulRes = ERROR_SUCCESS => CanAcquire
    /\ Commit(event_provider_create(Cur, w, ulRes), "create", w, 0, 0, ulRes)
    /\ UNCHANGED <<life, kind, detached, dropped>>

\* event_session::create
SessionCreate(w, ulRes) ==
    /\ Alive(w)
    /\ kind[w] = "event_session"
    /\ CanAllocProp
    /\ ulRes = ERROR_SUCCESS => CanAcquire
    /\ Commit(event_session_create(Cur, w, ulRes), "create", w, 0, 0, ulRes)
    /\ UNCHANGED <<life, kind, detached, dropped>>

\* com_obj::create.  On success CoCreateInstance stores the address of the
\* new object, whose low dword may or may not have bit 31 set; on failure
\* it stores NULL.
ComCreate(w, hr, high) ==
    /\ Alive(w)
    /\ kind[w] = "com_obj"
    /\ SUCCEEDED(hr) => CanAcquire
    /\ LET h == IF SUCCEEDED(hr)
                THEN (IF high THEN INT32_MIN + FreshHandle ELSE FreshHandle)
                ELSE NULL
           S == com_obj_create(Cur, w, hr, h)
       IN  /\ Commit(S, "create", w, 0, h, hr)
           /\ dropped' = IF h # NULL /\ S.h[w] # h THEN dropped \cup {h} ELSE dropped
    /\ UNCHANGED <<life, kind, detached>>

Next ==
    \/ \E w \in Wrappers, k \in Kinds : Construct(w, k)
    \/ \E w \in Wrappers, k \in Kinds : ConstructHandle(w, k)
    \/ \E w, src \in Wrappers : MoveConstruct(w, src)
    \/ \E w \in Wrappers, fresh \in BOOLEAN : Attach(w, fresh)
    \/ \E w \in Wrappers, fresh \in BOOLEAN : AssignHandle(w, fresh)
    \/ \E w \in Wrappers : SessionAttach(w)
    \/ \E w, src \in Wrappers : MoveAssign(w, src)
    \/ \E w, src \in Wrappers : CopyAssign(w, src)
    \/ \E w \in Wrappers : Detach(w)
    \/ \E w \in Wrappers : Free(w)
    \/ \E w \in Wrappers : Destroy(w)
    \/ \E w \in Wrappers, ulRes \in {ERROR_SUCCESS, ERROR_ACCESS_DENIED} : ProviderCreate(w, ulRes)
    \/ \E w \in Wrappers, ulRes \in {ERROR_SUCCESS, ERROR_ACCESS_DENIED} : SessionCreate(w, ulRes)
    \/ \E w \in Wrappers, hr \in {S_OK, REGDB_E_CLASSNOTREG}, high \in BOOLEAN : ComCreate(w, hr, high)

Spec == Init /\ [][Next]_vars

(***************************************************************************)
(* The conversion helpers as a state machine of their own: each step is    *)
(* one call with arguments drawn from the bounded input sets.              *)
(***************************************************************************)

Converts(fn, dir, shape, lp, cch, out0, res) ==
    /\ cv = NoConversion
    /\ cv' = [fn |-> fn, dir |-> dir, shape |-> shape, lp |-> lp, cch |-> cch,
              out0 |-> out0, res |-> res]
    /\ UNCHANGED allBut_cv

CallWideCharToMultiByte_string ==
    \E a \in PointerArgs(WideChars), out0 \in OldOutputs :
        Converts("WideCharToMultiByte_string", "W2M", "ptr_str", a[1], a[2], out0,
                 WideCharToMultiByte_string(a[1], a[2], out0, FALSE))

CallWideCharToMultiByte_vector ==
    \E a \in PointerArgs(WideChars), out0 \in OldOutputs :
        Converts("WideCharToMultiByte_vector", "W2M", "ptr_vec", a[1], a[2], out0,
                 WideCharToMultiByte_vector(a[1], a[2], out0, FALSE))

CallWideCharToMultiByte_wstring ==
    \E str \in Strings(WideChars), out0 \in OldOutputs :
        Converts("WideCharToMultiByte_wstring", "W2M", "str_str", str, Len(str), out0,
                 WideCharToMultiByte_wstring(str, out0, FALSE))

CallMultiByteToWideChar_wstring ==
    \E a \in PointerArgs(Bytes), out0 \in OldOutputs, vf \in BOOLEAN :
        Converts("MultiByteToWideChar_wstring", "M2W", "ptr_str", a[1], a[2], out0,
                 MultiByteToWideChar_wstring(a[1], a[2], out0, vf))

CallMultiByteToWideChar_vector ==
    \E a \in PointerArgs(Bytes), out0 \in OldOutputs, vf \in BOOLEAN :
        Converts("MultiByteToWideChar_vector", "M2W", "ptr_vec", a[1], a[2], out0,
                 MultiByteToWideChar_vector(a[1], a[2], out0, vf))

CallMultiByteToWideChar_string ==
    \E str \in Strings(Bytes), out0 \in OldOutputs, vf \in BOOLEAN :
        Converts("MultiByteToWideChar_string", "M2W", "str_str", str, Len(str), out0,
                 MultiByteToWideChar_string(str, out0, vf))

NextConv ==
    \/ CallWideCharToMultiByte_string
    \/ CallWideCharToMultiByte_vector
    \/ CallWideCharToMultiByte_wstring
    \/ CallMultiByteToWideChar_wstring
    \/ CallMultiByteToWideChar_vector
    \/ CallMultiByteToWideChar_string

ConvSpec == Init /\ [][NextConv]_vars

(***************************************************************************)
(* The Secure* helpers as a state machine: each step is one call.          *)
(***************************************************************************)
SecureConverts(fn, dir, shape, lp, cch, out0, retry, res) ==
    /\ cv = NoConversion
    /\ cv' = [fn |-> fn, dir |-> dir, shape |-> shape, lp |-> lp, cch |-> cch,
              out0 |-> out0, retry |-> retry, res |-> res]
    /\ UNCHANGED allBut_cv

CallSecureWideCharToMultiByte_string ==
    \E a \in PointerArgs(WideChars), out0 \in OldOutputs, retry \in RetryOutcomes :
        SecureConverts("SecureWideCharToMultiByte_string", "W2M", "ptr_str", a[1], a[2],
                       out0, retry,
                       SecureWideCharToMultiByte_string(a[1], a[2], out0, FALSE, retry))

CallSecureWideCharToMultiByte_vector ==
    \E a \in PointerArgs(WideChars), out0 \in OldOutputs, retry \in RetryOutcomes :
        SecureConverts("SecureWideCharToMultiByte_vector", "W2M", "ptr_vec", a[1], a[2],
                       out0, retry,
                       SecureWideCharToMultiByte_vector(a[1], a[2], out0, FALSE, retry))

CallSecureWideCharToMultiByte_wstring ==
    \E str \in Strings(WideChars), out0 \in OldOutputs, retry \in RetryOutcomes :
        SecureConverts("SecureWideCharToMultiByte_wstring", "W2M", "str_str", str, Len(str),
                       out0, retry,
                       SecureWideCharToMultiByte_wstring(str, out0, FALSE, retry))

CallSecureMultiByteToWideChar_wstring ==
    \E a \in PointerArgs(Bytes), out0 \in OldOutputs, vf \in BOOLEAN,
       retry \in RetryOutcomes :
        SecureConverts("SecureMultiByteToWideChar_wstring", "M2W", "ptr_str", a[1], a[2],
                       out0, retry,
                       SecureMultiByteToWideChar_wstring(a[1], a[2], out0, vf, retry))

CallSecureMultiByteToWideChar_vector ==
    \E a \in PointerArgs(Bytes), out0 \in OldOutputs, vf \in BOOLEAN,
       retry \in RetryOutcomes :
        SecureConverts("SecureMultiByteToWideChar_vector", "M2W", "ptr_vec", a[1], a[2],
                       out0, retry,
                       SecureMultiByteToWideChar_vector(a[1], a[2], out0, vf, retry))

CallSecureMultiByteToWideChar_string ==
    \E str \in Strings(Bytes), out0 \in OldOutputs, vf \in BOOLEAN,
       retry \in RetryOutcomes :
        SecureConverts("SecureMultiByteToWideChar_string", "M2W", "str_str", str, Len(str),
                       out0, retry,
                       SecureMultiByteToWideChar_string(str, out0, vf, retry))

NextSecure ==
    \/ CallSecureWideCharToMultiByte_string
    \/ CallSecureWideCharToMultiByte_vector
    \/ CallSecureWideCharToMultiByte_wstring
    \/ CallSecureMultiByteToWideChar_wstring
    \/ CallSecureMultiByteToWideChar_vector
    \/ CallSecureMultiByteToWideChar_string

SecureSpec == Init /\ [][NextSecure]_vars

(***************************************************************************)
(* A container releasing its block through the sanitizing allocator.       *)
(***************************************************************************)
Deallocates(ty, sz) ==
    /\ al = NoDeallocation
    /\ \E block \in Blocks(sz) :
          al' = [ty |-> ty, sz |-> sz, n |-> Len(block) \div sz, block |-> block,
                 passed |-> sanitizing_allocator_deallocate(block, Len(block) \div sz, sz)]
    /\ UNCHANGED allBut_al

\* sanitizing_string releases its buffer.
DeallocateString == Deallocates("char", sizeof_CHAR)
\* sanitizing_wstring releases its buffer.
DeallocateWString == Deallocates("wchar_t", sizeof_WCHAR)

NextAlloc == DeallocateString \/ DeallocateWString

AllocSpec == Init /\ [][NextAlloc]_vars

(***************************************************************************)
(* One call of vsprintf, step by step: the stack attempt, then the         *)
(* iterations of the heap loop.                                            *)
(***************************************************************************)
VsprintfCall ==
    /\ vp.pc = "idle"
    /\ \E f \in Formatters, text \in Texts, fails \in BOOLEAN, junk \in JunkValues :
          vp' = vsprintf_stack(f, text, fails, junk)
    /\ UNCHANGED allBut_vp

VsprintfRetry ==
    /\ vp.pc = "retry"
    /\ vp' = vsprintf_retry(vp)
    /\ UNCHANGED allBut_vp

NextVsprintf == VsprintfCall \/ VsprintfRetry

VsprintfSpec == Init /\ [][NextVsprintf]_vars

\* A call that has started keeps running.
VsprintfFairSpec == VsprintfSpec /\ WF_vars(VsprintfRetry)

(***************************************************************************)
(* Scopes that hold event_trace_enabler objects.                           *)
(***************************************************************************)
EnablerConstruct(e) ==
    /\ en.life[e] = "unborn"
    /\ \E a \in EnablerArgs, ulRes \in {ERROR_SUCCESS, ERROR_ACCESS_DENIED} :
          en' = [event_trace_enabler_ctor(en, e, a, ulRes) EXCEPT !.given[e] = a]
    /\ UNCHANGED allBut_en

EnablerConstructSession(e) ==
    /\ en.life[e] = "unborn"
    /\ \E session \in Sessions, a \in EnablerArgs,
          ulRes \in {ERROR_SUCCESS, ERROR_ACCESS_DENIED} :
          en' = [event_trace_enabler_ctor_session(en, e, session, a, ulRes)
                    EXCEPT !.given[e] = [a EXCEPT !.SourceId = session.guid,
                                                  !.TraceHandle = session.m_h]]
    /\ UNCHANGED allBut_en

EnablerStatus(e) ==
    /\ en.life[e] = "alive"
    /\ en' = [en EXCEPT !.read = [e |-> e, value |-> event_trace_enabler_status(en, e)]]
    /\ UNCHANGED allBut_en

EnablerDestroy(e) ==
    /\ en.life[e] = "alive"
    /\ en' = event_trace_enabler_dtor(en, e)
    /\ UNCHANGED allBut_en

NextEnabler ==
    \E e \in Enablers :
        \/ EnablerConstruct(e)
        \/ EnablerConstructSession(e)
        \/ EnablerStatus(e)
        \/ EnablerDestroy(e)

EnablerSpec == Init /\ [][NextEnabler]_vars

\* Scopes end: every live enabler is destroyed.
EnablerFairSpec == EnablerSpec /\ \A e \in Enablers : WF_vars(EnablerDestroy(e))

(***************************************************************************)
(* Code that builds variants and moves them around.                        *)
(***************************************************************************)
VariantDone(M, op, v, src) ==
    /\ va' = [M EXCEPT !.last = [op |-> op, v |-> v, src |-> src,
                                 mem |-> va.mem, freed |-> va.freed]]
    /\ UNCHANGED allBut_va

VariantConstruct(v) ==
    /\ va.life[v] = "unborn"
    /\ \E junk \in JunkValues :
          \/ VariantDone(variant_ctor(va, v, junk), "ctor", v, 0)
          \/ \E n \in LongValues :
                VariantDone(variant_ctor_long(va, v, n, junk), "ctor", v, 0)
          \/ /\ va.allocated < MaxBstr
             /\ VariantDone(variant_ctor_bstr(va, v, 100 + va.allocated + 1, junk),
                            "ctor", v, 0)

VariantMoveConstruct(v, src) ==
    /\ va.life[v] = "unborn"
    /\ va.life[src] = "alive"
    /\ \E junk \in JunkValues :
          VariantDone(variant_move_ctor(va, v, src, junk), "move_ctor", v, src)

VariantMoveAssign(v, src) ==
    /\ va.life[v] = "alive"
    /\ va.life[src] = "alive"
    /\ VariantDone(variant_move_assign(va, v, src), "move_assign", v, src)

NextVariant ==
    \E v \in Variants :
        \/ VariantConstruct(v)
        \/ \E src \in Variants \ {v} : VariantMoveConstruct(v, src)
        \/ \E src \in Variants : VariantMoveAssign(v, src)

VariantSpec == Init /\ [][NextVariant]_vars

(***************************************************************************)
(* Code that builds, fills, copies, moves and destroys event records.      *)
(***************************************************************************)
\* The heap still has room for n more buffers.
CanAllocate(n) == er.allocated + n <= MaxBuffers
\* The buffers a copy of record other allocates.
CopyNeeds(other) ==
    (IF er.rec[other].ExtendedDataCount # 0 THEN 1 ELSE 0) +
    (IF er.rec[other].UserDataLength # 0 THEN 1 ELSE 0)

RecordConstruct(r) ==
    /\ er.life[r] = "unborn"
    /\ er' = event_rec_ctor(er, r)
    /\ UNCHANGED allBut_er

RecordCopyConstruct(r, other) ==
    /\ er.life[r] = "unborn"
    /\ er.life[other] = "alive"
    /\ CanAllocate(CopyNeeds(other))
    /\ er' = event_rec_copy_ctor(er, r, other)
    /\ UNCHANGED allBut_er

RecordMoveConstruct(r, other) ==
    /\ er.life[r] = "unborn"
    /\ er.life[other] = "alive"
    /\ er' = event_rec_move_ctor(er, r, other)
    /\ UNCHANGED allBut_er

RecordCopyAssign(r, other) ==
    /\ er.life[r] = "alive"
    /\ er.life[other] = "alive"
    /\ CanAllocate(CopyNeeds(other))
    /\ er' = event_rec_copy_assign(er, r, other)
    /\ UNCHANGED allBut_er

RecordMoveAssign(r, other) ==
    /\ er.life[r] = "alive"
    /\ er.life[other] = "alive"
    /\ er' = event_rec_move_assign(er, r, other)
    /\ UNCHANGED allBut_er

RecordSetExtendedData(r) ==
    /\ er.life[r] = "alive"
    /\ \E count \in DataSizes :
          /\ CanAllocate(count)
          /\ er' = set_extended_data(er, r, count)
    /\ UNCHANGED allBut_er

RecordSetUserData(r) ==
    /\ er.life[r] = "alive"
    /\ \E size \in DataSizes :
          /\ CanAllocate(size)
          /\ er' = set_user_data(er, r, size)
    /\ UNCHANGED allBut_er

RecordDestroy(r) ==
    /\ er.life[r] = "alive"
    /\ er' = event_rec_dtor(er, r)
    /\ UNCHANGED allBut_er

NextRecord ==
    \E r \in Records :
        \/ RecordConstruct(r)
        \/ \E other \in Records \ {r} : RecordCopyConstruct(r, other)
        \/ \E other \in Records \ {r} : RecordMoveConstruct(r, other)
        \/ \E other \in Records : RecordCopyAssign(r, other)
        \/ \E other \in Records : RecordMoveAssign(r, other)
        \/ RecordSetExtendedData(r)
        \/ RecordSetUserData(r)
        \/ RecordDestroy(r)

RecordSpec == Init /\ [][NextRecord]_vars

\* The destructors run when scopes end: every live object is destroyed.
FairSpec == Spec /\ \A w \in Wrappers : WF_vars(Destroy(w))

(***************************************************************************)
(* Properties.                                                             *)
(***************************************************************************)
Valid(w, h) == h # invalid(kind[w])
Held(h) == \E w \in Wrappers : Alive(w) /\ m_h[w] = h
\* The native release of wrapper w on handle h, as free_internal() issues it.
ReleaseCall(w, h) == Call(ReleaseFn(kind[w]), h, last.pre.prop[w])
\* The last operation released exactly h, once.
ReleasedOnly(w, h) ==
    /\ last.calls = <<ReleaseCall(w, h)>>
    /\ released = [last.pre.rel EXCEPT ![h] = @ + 1]
ReleasedNothing == last.calls = <<>> /\ released = last.pre.rel

\* C1: over any sequence of the operations, a native handle is held by at
\* most one live wrapper, and no handle is released more than once.
C1_SingleOwnerNoDoubleRelease ==
    /\ \A w1, w2 \in Wrappers :
          (w1 # w2 /\ Alive(w1) /\ Alive(w2) /\ m_h[w1] \in NativeHandles)
              => m_h[w1] # m_h[w2]
    /\ \A h \in NativeHandles : released[h] <= 1

\* C1 witness: a move assignment released the destination's handle and
\* handed it the source's, while both objects live.
C1_Witness ==
    /\ last.op = "move_assign"
    /\ last.w # last.src
    /\ Len(last.calls) = 1
    /\ m_h[last.w] \in NativeHandles
    /\ released[last.pre.h[last.w]] = 1

C3_MoveTransfers ==
    /\ last.op = "move_construct" =>
          /\ m_h[last.w] = last.pre.h[last.src]
          /\ m_h[last.src] = invalid(kind[last.src])
          /\ ReleasedNothing
    /\ (last.op = "move_assign" /\ last.w # last.src) =>
          /\ m_h[last.w] = last.pre.h[last.src]
          /\ m_h[last.src] = invalid(kind[last.src])
          /\ IF Valid(last.w, last.pre.h[last.w])
             THEN ReleasedOnly(last.w, last.pre.h[last.w])
             ELSE ReleasedNothing
    /\ (last.op = "move_assign" /\ last.w = last.src) =>
          /\ m_h = last.pre.h
          /\ m_prop = last.pre.prop
          /\ ReleasedNothing

\* C3 witness: a self move assignment of a wrapper holding a handle.
C3_Witness ==
    /\ last.op = "move_assign"
    /\ last.w = last.src
    /\ m_h[last.w] \in NativeHandles

\* C4: attach(h) and operator=(handle_type h) release the held valid
\* handle exactly once, before h is stored, release nothing when the
\* wrapper is empty, and leave the wrapper holding h.
C4_AttachReleasesFirst ==
    last.op \in {"attach", "assign_handle"} =>
        /\ m_h[last.w] = last.arg
        /\ IF Valid(last.w, last.pre.h[last.w])
           THEN ReleasedOnly(last.w, last.pre.h[last.w])
           ELSE ReleasedNothing

\* C4 witness: a handle was assigned to a wrapper that held another one.
C4_Witness ==
    /\ last.op = "assign_handle"
    /\ last.pre.h[last.w] \in NativeHandles
    /\ last.arg \in NativeHandles

\* C5: detach() returns the held handle, leaves the wrapper invalid and
\* releases nothing; no later operation releases a detached handle.
C5_DetachDoesNotRelease ==
    /\ last.op = "detach" =>
          /\ last.ret = last.pre.h[last.w]
          /\ m_h[last.w] = invalid(kind[last.w])
          /\ ReleasedNothing
    /\ \A h \in detached : released[h] = 0

\* C5 witness: a wrapper was destroyed after its handle was detached.
C5_Witness ==
    /\ last.op = "destroy"
    /\ detached # {}
    /\ \A w \in Wrappers : life[w] = "dead"

\* C6: free() releases a held handle exactly once and leaves the wrapper
\* empty; on an empty wrapper it releases nothing; a second free() in a
\* row adds no release and changes nothing.
C6_FreeIdempotent ==
    /\ last.op = "free" =>
          /\ m_h[last.w] = invalid(kind[last.w])
          /\ IF Valid(last.w, last.pre.h[last.w])
             THEN ReleasedOnly(last.w, last.pre.h[last.w])
             ELSE ReleasedNothing
    /\ \A w \in Wrappers : Alive(w) => free(free(Cur, w), w) = free(Cur, w)

\* C6 witness: free() released a handle.
C6_Witness ==
    /\ last.op = "free"
    /\ last.pre.h[last.w] \in NativeHandles
    /\ released[last.pre.h[last.w]] = 1

\* C7: copy assignment a = b leaves b unchanged; with b valid, a holds a
\* fresh duplicate obtained before a's previous handle is released; with b
\* empty, a is empty; a's previous valid handle is released exactly once;
\* self-assignment duplicates and releases nothing.
C7_CopyAssignDuplicatesFirst ==
    /\ (last.op = "copy_assign" /\ last.w # last.src) =>
          LET a == last.w
              b == last.src
              dup == Call("duplicate_internal", last.pre.h[b], NULL)
              rel == IF Valid(a, last.pre.h[a])
                     THEN <<ReleaseCall(a, last.pre.h[a])>> ELSE <<>>
          IN  /\ m_h[b] = last.pre.h[b]
              /\ released = IF Valid(a, last.pre.h[a])
                            THEN [last.pre.rel EXCEPT ![last.pre.h[a]] = @ + 1]
                            ELSE last.pre.rel
              /\ IF Valid(b, last.pre.h[b])
                 THEN /\ m_h[a] = last.pre.nh + 1
                      /\ nextH = last.pre.nh + 1
                      /\ last.calls = <<dup>> \o rel
                 ELSE /\ m_h[a] = invalid(kind[a])
                      /\ last.calls = rel
    /\ (last.op = "copy_assign" /\ last.w = last.src) =>
          /\ m_h = last.pre.h
          /\ nextH = last.pre.nh
          /\ ReleasedNothing

\* C7 witness: a = b with both holding handles.
C7_Witness ==
    /\ last.op = "copy_assign"
    /\ last.w # last.src
    /\ Len(last.calls) = 2

IsCreateOf(k) == last.op = "create" /\ kind[last.w] = k

\* C8: event_provider::create and event_session::create return the native
\* result code; the wrapper holds the new handle exactly when the code is
\* ERROR_SUCCESS; otherwise handle and properties are as before, nothing
\* was released, and the properties copy of the attempt is deleted.
C8_CreateForwardsResult ==
    (IsCreateOf("event_provider") \/ IsCreateOf("event_session")) =>
        /\ last.ret = last.code
        /\ (last.code = ERROR_SUCCESS) <=>
               (nextH = last.pre.nh + 1 /\ m_h[last.w] = nextH)
        /\ (last.code = ERROR_SUCCESS /\ IsCreateOf("event_session")) =>
               (m_prop[last.w] = nextP /\ propFreed[nextP] = 0)
        /\ last.code # ERROR_SUCCESS =>
               /\ m_h[last.w] = last.pre.h[last.w]
               /\ m_prop[last.w] = last.pre.prop[last.w]
               /\ released = last.pre.rel
               /\ IF IsCreateOf("event_session")
                  THEN /\ nextP = last.pre.np + 1
                       /\ propFreed = [last.pre.pfree EXCEPT ![nextP] = 1]
                  ELSE propFreed = last.pre.pfree

\* C8 witness: StartTrace failed on a session that held a handle.
C8_Witness ==
    /\ IsCreateOf("event_session")
    /\ last.code # ERROR_SUCCESS
    /\ m_h[last.w] \in NativeHandles

\* C9: com_obj::create returns the HRESULT of CoCreateInstance; the
\* wrapper takes the new object exactly when that HRESULT is a success;
\* after a failure the object held before is still held and unreleased.
C9_ComCreateKeepsOnFailure ==
    IsCreateOf("com_obj") =>
        /\ last.ret = last.code
        /\ SUCCEEDED(last.code) <=> (last.arg # NULL /\ m_h[last.w] = last.arg)
        /\ ~SUCCEEDED(last.code) =>
               /\ m_h[last.w] = last.pre.h[last.w]
               /\ released = last.pre.rel

\* What the native function makes of the arguments of the last call.
ConvertedChars == Converted(cv.dir, Source(cv.lp, cv.cch)).out
UpToTerminator(c) == Take(c, strnlen(c, Len(c)))
FirstCall == cv.res.calls[1]
\* The plan of calls every helper follows.
ConversionPlan(expected) ==
    /\ FirstCall.cap = StackCount(cv.dir)
    /\ FirstCall.ret # 0 =>
          /\ Len(cv.res.calls) = 1
          /\ cv.res.ret = FirstCall.ret
          /\ cv.res.out = expected
    /\ (FirstCall.ret = 0 /\ FirstCall.err = ERROR_INSUFFICIENT_BUFFER) =>
          /\ Len(cv.res.calls) = 3
          /\ cv.res.calls[2].cap = 0
          /\ cv.res.allocated = cv.res.calls[2].ret
          /\ cv.res.calls[3].cap = cv.res.allocated
          /\ cv.res.ret = cv.res.calls[3].ret
    /\ (FirstCall.ret = 0 /\ FirstCall.err # ERROR_INSUFFICIENT_BUFFER) =>
          /\ Len(cv.res.calls) = 1
          /\ cv.res.ret = 0
          /\ cv.res.out = cv.out0

\* C10 (as amended): a helper calls the native conversion on the stack
\* buffer first; on success it makes no further call and the output holds
\* the converted characters, cut before the first zero for the string
\* outputs that take a pointer and a count, all of them otherwise; on
\* ERROR_INSUFFICIENT_BUFFER it queries the length, allocates exactly that
\* and converts once more; on another failure it returns 0 and leaves the
\* output as it was.
C10_StackFirstThenExactRetry ==
    cv.fn # "none" =>
        ConversionPlan(IF cv.shape = "ptr_str"
                       THEN UpToTerminator(ConvertedChars) ELSE ConvertedChars)

\* C10 witness: a pointer-and-count helper succeeded on the stack buffer
\* and copied fewer characters than were converted.
C10_Witness ==
    /\ cv.shape = "ptr_str"
    /\ Len(cv.res.calls) = 1
    /\ cv.res.ret # 0
    /\ Len(cv.res.out) < cv.res.ret
    /\ cv.cch # -1

\* C10 as first stated: on success the output holds exactly the converted
\* characters, for every helper.
C10_OutputIsAllConverted ==
    cv.fn # "none" => ConversionPlan(ConvertedChars)

\* Every element of a buffer is zero.
AllZero(buf) == \A i \in 1..Len(buf) : buf[i] = 0

\* C11: whenever a Secure helper returns, its whole stack buffer and the
\* whole heap buffer it allocated, over the allocated length, are zero.
C11_InternalBuffersZeroed ==
    (cv.fn # "none" /\ ~cv.res.threw) =>
        /\ Len(cv.res.stack) = StackCount(cv.dir)
        /\ AllZero(cv.res.stack)
        /\ Len(cv.res.heap) = cv.res.allocated
        /\ AllZero(cv.res.heap)

\* C12: the block deallocate hands to the base allocator has every one of
\* its n * sizeof(_Ty) bytes zero, for every element type.
C12_DeallocateSanitizesWholeBlock ==
    al.ty # "none" =>
        /\ Len(al.passed) = al.n * al.sz
        /\ AllZero(al.passed)

\* C13: when vsprintf returns, str holds the whole formatted output and the
\* returned count is its length.
C13_VsprintfReturnsWholeOutput ==
    vp.pc = "done" =>
        /\ vp.str = vp.text
        /\ vp.count = Len(vp.str)

\* The capacities the heap loop tries for element size sz.
RECURSIVE Doubled(_, _)
Doubled(c, n) == IF n = 0 THEN c ELSE Doubled(2 * c, n - 1)

\* C14: every call of vsprintf returns, and a call that returns from the
\* heap loop returns at the first capacity that holds the output.
C14_VsprintfTerminates ==
    /\ [](/\ vp.pc = "done" /\ vp.iterations > 0 =>
              /\ Len(vp.text) <= vp.capacity - 1
              /\ vp.capacity = Doubled((2 * WINSTD_STACK_BUFFER_BYTES) \div vp.sz,
                                       vp.iterations - 1)
              /\ \A k \in 0..(vp.iterations - 2) :
                    Len(vp.text) > Doubled((2 * WINSTD_STACK_BUFFER_BYTES) \div vp.sz, k) - 1)
    /\ (vp.pc # "idle") ~> (vp.pc = "done")

\* The positions in the call log of e's calls with control code c.
EnablerCalls(e, c) ==
    {i \in 1..Len(en.calls) : en.calls[i].by = e /\ en.calls[i].IsEnabled = c}
\* The arguments of a call other than the control code.
SameTarget(c, a) ==
    /\ c.ProviderId = a.ProviderId
    /\ c.SourceId = a.SourceId
    /\ c.TraceHandle = a.TraceHandle
    /\ c.Level = a.Level
    /\ c.MatchAnyKeyword = a.MatchAnyKeyword
    /\ c.MatchAllKeyword = a.MatchAllKeyword
    /\ c.EnableProperty = a.EnableProperty
    /\ c.EnableFilterDesc = a.EnableFilterDesc
EnablerPaired(e) ==
    LET on == EnablerCalls(e, EVENT_CONTROL_CODE_ENABLE_PROVIDER)
        off == EnablerCalls(e, EVENT_CONTROL_CODE_DISABLE_PROVIDER)
    IN  /\ en.life[e] = "unborn" => on = {} /\ off = {}
        /\ en.life[e] # "unborn" =>
              /\ Cardinality(on) = 1
              /\ \A i \in on :
                    /\ SameTarget(en.calls[i], en.given[e])
                    /\ en.obj[e].m_status = en.calls[i].ret
                    /\ en.read.e = e => en.read.value = en.calls[i].ret
                    /\ (en.life[e] = "alive" \/ en.calls[i].ret # ERROR_SUCCESS) => off = {}
                    /\ (en.life[e] = "dead" /\ en.calls[i].ret = ERROR_SUCCESS) =>
                          /\ Cardinality(off) = 1
                          /\ \A j \in off : j > i /\ SameTarget(en.calls[j], en.given[e])

C16_VariantMoveTransfers ==
    LET v == va.last.v
        src == va.last.src
        was == [mem |-> va.last.mem]
    IN  /\ (va.last.op \in {"move_ctor", "move_assign"} /\ v # src) =>
              /\ vt(va, v) = vt(was, src)
              /\ value(va, v) = value(was, src)
              /\ vt(va, src) = VT_EMPTY
        /\ (va.last.op = "move_assign" /\ v # src) =>
              \A p \in BstrPointers :
                  va.freed[p] = va.last.freed[p] +
                      (IF vt(was, v) = VT_BSTR /\ value(was, v) = p THEN 1 ELSE 0)
        /\ (va.last.op = "move_assign" /\ v = src) =>
              /\ va.mem = va.last.mem
              /\ va.freed = va.last.freed

\* The fields of live records that point at buffer b.
BufferHolders(b) ==
    {<<r, "ExtendedData">> : r \in {x \in Records :
            er.life[x] = "alive" /\ er.rec[x].ExtendedData = b}} \cup
    {<<r, "UserData">> : r \in {x \in Records :
            er.life[x] = "alive" /\ er.rec[x].UserData = b}}

\* C17: every buffer a record allocated is either deleted exactly once and
\* no longer pointed at, or not deleted and owned by exactly one live
\* record, which will delete it; no buffer is lost and none is deleted
\* twice.
C17_BuffersFreedExactlyOnce ==
    \A b \in Buffers :
        b <= er.allocated =>
            \/ er.deleted[b] = 0 /\ Cardinality(BufferHolders(b)) = 1
            \/ er.deleted[b] = 1 /\ BufferHolders(b) = {}

====
